---- MODULE Spec2Model ----
(***************************************************************************)
(* A model of openmeteo_exporter: configuration validation (config.go),    *)
(* the Open-Meteo client (client.go, later snapshot), and the Prometheus   *)
(* collector (collector.go, collector_weather.go, collector_airquality.go).*)
(*                                                                         *)
(* Conventions                                                             *)
(*  - A Go pointer is a sequence of length at most one: <<>> is nil and    *)
(*    <<v>> points at v.                                                   *)
(*  - A decoded JSON value (interface{}) is a record [t, n, s]: t is the   *)
(*    dynamic type, n the number, s the string.                            *)
(*  - A Go map is a function; a lookup of a missing key gives nil.         *)
(*  - A string built by fmt.Sprintf / BuildFQName from parts joined by "_" *)
(*    is the sequence of its parts.                                        *)
(*  - A Go error is a record [msg, args]: the format string and the        *)
(*    formatted arguments.                                                 *)
(*  - A panic ends the process: client_golang runs Collect in a goroutine  *)
(*    without recover.                                                     *)
(***************************************************************************)
EXTENDS Integers, Sequences, FiniteSets, TLC

VARIABLES
    listVariables, \* the value of the flag --variables.list; "" when it is not given
    file,       \* the configuration file, as yaml.Unmarshal decodes it
    config,     \* Config.Locations: empty, then unmarshalled and validated in place
    err,        \* the error ReloadConfig returned to main
    Locations,  \* OpenMeteoCollector.Locations
    pc,         \* position of the process: main, idle, inside Collect, ended
    idx,        \* index of the location the loop of Collect is at
    ch,         \* the metrics Collect sent on its channel in this scrape
    log,        \* the records the collectors and the client logged in this scrape
    src,        \* history: for each metric of ch, the <<index, category>> that sent it
    logsrc,     \* history: for each record of log, the <<index, category>> that logged it
    fetched,    \* history: the upstream exchange of each <<index, category>> of this scrape
    prev,       \* history: fetched at the end of the scrape before this one, where recorded
    aborted,    \* nil, or the number of metrics sent when the caller of the scrape went away
    other       \* a second call of Collect in flight: its position, channel and exchanges

vars == <<listVariables, file, config, err, Locations, pc, idx, ch, log, src, logsrc, fetched,
         prev, aborted, other>>

-----------------------------------------------------------------------------
(* Bounds of the model.                                                    *)

\* The most locations a configuration file of the model lists.
MaxLocations == 2

\* The most sections (one GET each in a scrape) a scraped configuration has.
MaxFetches == 2

Range(s) == {s[i] : i \in 1..Len(s)}

SeqsUpTo(S, n) == UNION {[1..k -> S] : k \in 0..n}

-----------------------------------------------------------------------------
(* Variable catalog and accepted units (client.go).                        *)

WeatherVariables ==
    {"temperature_2m", "relative_humidity_2m", "dew_point_2m", "apparent_temperature",
     "pressure_msl", "surface_pressure", "cloud_cover", "cloud_cover_low",
     "cloud_cover_mid", "cloud_cover_high", "wind_speed_10m", "wind_speed_80m",
     "wind_speed_120m", "wind_speed_180m", "wind_direction_10m", "wind_direction_80m",
     "wind_direction_120m", "wind_direction_180m", "wind_gusts_10m",
     "shortwave_radiation", "direct_radiation", "direct_normal_irradiance",
     "diffuse_radiation", "vapour_pressure_deficit", "cape", "evapotranspiration",
     "et0_fao_evapotranspiration", "precipitation", "snowfall",
     "precipitation_probability", "rain", "showers", "weather_code", "snow_depth",
     "freezing_level_height", "visibility", "soil_temperature_0cm",
     "soil_temperature_6cm", "soil_temperature_18cm", "soil_temperature_54cm",
     "soil_moisture_0_to_1cm", "soil_moisture_1_to_3cm", "soil_moisture_3_to_9cm",
     "soil_moisture_9_to_27cm", "soil_moisture_27_to_81cm", "is_day"}

AirQualityVariables ==
    {"pm2_5", "pm10", "carbon_monoxide", "nitrogen_dioxide", "sulphur_dioxide",
     "ozone", "ammonia", "aerosol_optical_depth", "dust", "uv_index",
     "uv_index_clear_sky", "alder_pollen", "birch_pollen", "grass_pollen",
     "mugwort_pollen", "olive_pollen", "ragweed_pollen", "european_aqi",
     "european_aqi_pm2_5", "european_aqi_pm10", "european_aqi_nitrogen_dioxide",
     "european_aqi_ozone", "european_aqi_sulphur_dioxide", "us_aqi", "us_aqi_pm2_5",
     "us_aqi_pm10", "us_aqi_nitrogen_dioxide", "us_aqi_ozone",
     "us_aqi_sulphur_dioxide", "us_aqi_carbon_monoxide"}

ValidTemperatureUnits == {"fahrenheit", "celsius"}

ValidWindSpeedUnits == {"kmh", "mph", "ms", "kn"}

ValidPrecipitationUnits == {"mm", "inch"}

defaultTemperatureUnit == "fahrenheit"

defaultWindSpeedUnit == "mph"

defaultPrecipitationUnit == "inch"

\* A mutant of GetVariableDesc: one table for both categories.
GetVariableDescAnyCatalog(category, name) ==
    name \in WeatherVariables \cup AirQualityVariables

\* GetVariableDesc(category, name) returns no error: the name is in the table
\* of the category ("weather": WeatherVariables, anything else: AirQualityVariables).
GetVariableDesc(category, name) ==
    IF category = "weather"
    THEN name \in WeatherVariables
    ELSE name \in AirQualityVariables

IsValidVariable(category, name) == GetVariableDesc(category, name)

-----------------------------------------------------------------------------
(* Errors.                                                                 *)

NoError == [msg |-> "nil", args |-> <<>>]

Errorf(msg, args) == [msg |-> msg, args |-> args]

-----------------------------------------------------------------------------
(* Configuration validation (config.go).                                   *)

Nil == <<>>

Ptr(v) == <<v>>

\* The first name of vars that is not a variable of the category.
FirstInvalidVariable(category, names) ==
    names[CHOOSE i \in 1..Len(names) :
            /\ ~IsValidVariable(category, names[i])
            /\ \A j \in 1..(i - 1) : IsValidVariable(category, names[j])]

\* A mutant of FillDefault: a field that already holds the default is cleared.
FillDefaultClearing(value, default) ==
    IF value = "" THEN default ELSE IF value = default THEN "" ELSE value

\* `if len(field) == 0 { field = default }`: the field after the statement.
FillDefault(value, default) == IF value = "" THEN default ELSE value

\* (w *WeatherConfig) Validate(l): the error returned and the WeatherConfig as
\* the call leaves it (defaults are written before the check that follows them).
WeatherConfigValidate(w, name) ==
    IF Len(w.Variables) = 0
    THEN [err |-> Errorf("invalid weather config, no entries for variables: %s", <<name>>),
          w |-> w]
    ELSE IF \E i \in 1..Len(w.Variables) : ~IsValidVariable("weather", w.Variables[i])
    THEN [err |-> Errorf("invalid current weather variable, %s, for location: %s",
                         <<FirstInvalidVariable("weather", w.Variables), name>>),
          w |-> w]
    ELSE
      LET w1 == [w EXCEPT !.TemperatureUnit = FillDefault(@, defaultTemperatureUnit)]
          w2 == [w1 EXCEPT !.WindSpeedUnit = FillDefault(@, defaultWindSpeedUnit)]
          w3 == [w2 EXCEPT !.PrecipitationUnit = FillDefault(@, defaultPrecipitationUnit)]
      IN  IF w1.TemperatureUnit \notin ValidTemperatureUnits
          THEN [err |-> Errorf("invalid temperature_unit, %s, for location: %s",
                               <<w1.TemperatureUnit, name>>),
                w |-> w1]
          ELSE IF w2.WindSpeedUnit \notin ValidWindSpeedUnits
          THEN [err |-> Errorf("invalid wind_speed_unit, %s, for location: %s",
                               <<w2.WindSpeedUnit, name>>),
                w |-> w2]
          ELSE IF w3.PrecipitationUnit \notin ValidPrecipitationUnits
          THEN [err |-> Errorf("invalid precipitation_unit, %s, for location: %s",
                               <<w3.PrecipitationUnit, name>>),
                w |-> w3]
          ELSE [err |-> NoError, w |-> w3]

\* (a *AirQualityConfig) Validate(l): the error returned.
AirQualityConfigValidate(a, name) ==
    IF Len(a.Variables) = 0
    THEN Errorf("invalid air quality config, no entries for variables: %s", <<name>>)
    ELSE IF \E i \in 1..Len(a.Variables) : ~IsValidVariable("airquality", a.Variables[i])
    THEN Errorf("invalid current air quality variable, %s, for location: %s",
                <<FirstInvalidVariable("airquality", a.Variables), name>>)
    ELSE NoError

\* A mutant of NoLongitude: a zero longitude is accepted.
NoLongitudeAccepted(l) == FALSE

\* config.go:107: l.Longitude == 0.
NoLongitude(l) == l.Longitude = 0

\* A mutant of ErrNoLatitude: the error leaves out the location's name.
ErrNoLatitudeAnonymous(l) == Errorf("invalid location, no latitude provided", <<>>)

\* config.go:104: the error for a zero latitude.
ErrNoLatitude(l) == Errorf("invalid location, no latitude provided: %s", <<l.Name>>)

\* (l *LocationConfig) Validate(): the error returned and the receiver *l as the
\* call leaves it; l.Weather is a pointer, so what WeatherConfig.Validate wrote
\* is written to the WeatherConfig that l.Weather points at.
LocationConfigValidate(l) ==
    IF l.Name = ""
    THEN [err |-> Errorf("invalid location, no name provided", <<>>), l |-> l]
    ELSE IF l.Latitude = 0
    THEN [err |-> ErrNoLatitude(l), l |-> l]
    ELSE IF NoLongitude(l)
    THEN [err |-> Errorf("invalid location, no longitude provided: %s", <<l.Name>>),
          l |-> l]
    ELSE
      LET l1 == [l EXCEPT !.Timezone = FillDefault(@, "auto")]
          wr == IF l1.Weather # Nil
                THEN WeatherConfigValidate(l1.Weather[1], l1.Name)
                ELSE [err |-> NoError, w |-> 0]
          l2 == IF l1.Weather # Nil THEN [l1 EXCEPT !.Weather = Ptr(wr.w)] ELSE l1
          ar == IF l2.AirQuality # Nil
                THEN AirQualityConfigValidate(l2.AirQuality[1], l2.Name)
                ELSE NoError
      IN  IF wr.err # NoError THEN [err |-> wr.err, l |-> l2]
          ELSE IF ar # NoError THEN [err |-> ar, l |-> l2]
          ELSE IF l2.Weather = Nil /\ l2.AirQuality = Nil
          THEN [err |-> Errorf("invalid location, no weather or air_quality sections defined: %s",
                               <<l2.Name>>),
                l |-> l2]
          ELSE [err |-> NoError, l |-> l2]

\* The element of c.Locations after one iteration of `for _, loc := range
\* c.Locations { loc.Validate() }`: loc is a copy of the element, so of what
\* Validate wrote to its receiver only the writes through the shared Weather
\* pointer reach the element; the copy's other fields are dropped.
RangeCopyWriteBack(element, copy) == [element EXCEPT !.Weather = copy.Weather]

RECURSIVE ValidateFromLenient(_, _)
\* A mutant of ValidateFrom: a location that fails validation is passed over
\* and the remaining locations are loaded.
ValidateFromLenient(locs, i) ==
    IF i > Len(locs)
    THEN [err |-> NoError, locs |-> locs]
    ELSE LET r == LocationConfigValidate(locs[i])
         IN  ValidateFromLenient(
                 [locs EXCEPT ![i] = RangeCopyWriteBack(locs[i], r.l)], i + 1)

RECURSIVE ValidateFrom(_, _)
\* The loop of Config.Validate from index i on: it stops at the first error.
ValidateFrom(locs, i) ==
    IF i > Len(locs)
    THEN [err |-> NoError, locs |-> locs]
    ELSE LET r == LocationConfigValidate(locs[i])
             locs1 == [locs EXCEPT ![i] = RangeCopyWriteBack(locs[i], r.l)]
         IN  IF r.err # NoError
             THEN [err |-> r.err, locs |-> locs1]
             ELSE ValidateFrom(locs1, i + 1)

\* (c *Config) Validate(): the error returned and c.Locations as the call leaves it.
ConfigValidate(locs) ==
    IF Len(locs) = 0
    THEN [err |-> Errorf("invalid config, no locations provided", <<>>), locs |-> locs]
    ELSE ValidateFrom(locs, 1)

-----------------------------------------------------------------------------
(* Decoded JSON values and Go maps.                                        *)

JNil == [t |-> "nil", n |-> 0, s |-> ""]

JNum(x) == [t |-> "float64", n |-> x, s |-> ""]

JStr(x) == [t |-> "string", n |-> 0, s |-> x]

\* m[k] of a Go map: nil when the key is missing.
MapGet(m, k) == IF k \in DOMAIN m THEN m[k] ELSE JNil

\* fmt.Sprintf("%s", v) of an interface{} value.
SprintfS(v) ==
    IF v.t = "string" THEN v.s
    ELSE IF v.t = "nil" THEN "%!s(<nil>)"
    ELSE "%!s(float64)"

-----------------------------------------------------------------------------
(* The upstream exchange: what one http.Get of a scrape meets.             *)
(* transport: "ok", "get_error" (http.Get fails), "read_error" (reading    *)
(* the body fails). body: valid says both json.Unmarshal calls succeed;    *)
(* hasCurrent / hasUnits say the top-level object has a non-null "current" *)
(* / "current_units" object; current and units are those objects.          *)

NoExchange ==
    [transport |-> "none", status |-> 0,
     body |-> [valid |-> FALSE, hasCurrent |-> FALSE, current |-> <<>>,
               hasUnits |-> FALSE, units |-> <<>>, generationtime_ms |-> 0]]

ErrNon2XXResponse == Errorf("received non-2XX status", <<>>)

ErrGet == Errorf("http.Get", <<>>)

ErrRead == Errorf("io.ReadAll", <<>>)

ErrUnmarshal == Errorf("json.Unmarshal", <<>>)

LogRecord(level, msg, subject, e) ==
    [level |-> level, msg |-> msg, subject |-> subject, err |-> e.msg]

\* A mutant of Requests: a request that failed is made a second time.
RequestsWithRetry(x) ==
    IF x.transport # "ok" \/ x.status >= 400 THEN <<x, x>> ELSE <<x>>

\* The GETs one call of doRequest makes, each with the exchange it met: the
\* single http.Get(fullUrl).
Requests(x) == <<x>>

\* (c OpenMeteoClient) doRequest: the error returned (NoError: the body is
\* returned) and what it logged.
doRequest(x) ==
    IF x.transport = "get_error"
    THEN [err |-> ErrGet,
          log |-> <<LogRecord("error", "Failed to query open-meteo API", "", ErrGet)>>]
    ELSE IF x.transport = "read_error"
    THEN [err |-> ErrRead,
          log |-> <<LogRecord("error", "Failed to read response body", "", ErrRead)>>]
    ELSE IF x.status >= 400
    THEN [err |-> ErrNon2XXResponse,
          log |-> <<LogRecord("warn", "non-2XX", "", NoError)>>]
    ELSE [err |-> NoError, log |-> <<>>]

\* A mutant of omitValues: only "time" is left out.
omitValuesTimeOnly == {"time"}

omitValues == {"time", "interval"}

\* The part of GetWeather and GetAirQuality after the request is built (the
\* two are the same code on different response types): err is the error
\* returned, panic says a type assertion on bareResp panicked, resp is the
\* response returned when neither holds.
GetResponse(x) ==
    LET r == doRequest(x)
        names == DOMAIN x.body.current \ omitValues
    IN  IF r.err # NoError
        THEN [err |-> r.err, panic |-> FALSE, log |-> r.log, resp |-> NoExchange.body]
        ELSE IF ~x.body.valid
        THEN [err |-> ErrUnmarshal, panic |-> FALSE, log |-> r.log,
              resp |-> NoExchange.body]
        ELSE IF ~x.body.hasCurrent
        THEN \* bareResp["current"].(map[string]interface{}) of a nil interface
             [err |-> NoError, panic |-> TRUE, log |-> r.log, resp |-> NoExchange.body]
        ELSE IF names # {} /\ ~x.body.hasUnits
        THEN \* bareResp["current_units"].(map[string]interface{}) of a nil interface
             [err |-> NoError, panic |-> TRUE, log |-> r.log, resp |-> NoExchange.body]
        ELSE [err |-> NoError, panic |-> FALSE, log |-> r.log,
              resp |-> [GenerationtimeMs |-> x.body.generationtime_ms,
                        Current |-> [k \in names |-> x.body.current[k]],
                        CurrentUnits |-> [k \in names |-> MapGet(x.body.units, k)]]]

GetWeather(l, x) == GetResponse(x)

GetAirQuality(l, x) == GetResponse(x)

-----------------------------------------------------------------------------
(* Metrics (collector.go).                                                 *)

namespace == "openmeteo"

\* prometheus.BuildFQName(namespace, subsystem, name), name given by its parts.
BuildFQName(ns, subsystem, nameParts) == <<ns, subsystem>> \o nameParts

\* fmt.Sprintf("%f", x) for the coordinates of the model.
SprintfF(x) ==
    CASE x = 0 -> "0.000000"
      [] x = 37 -> "37.000000"
      [] x = -122 -> "-122.000000"
      [] OTHER -> "%f"

ConstMetric(fqName, value, labelValues) ==
    [fqName |-> fqName, value |-> value, labels |-> labelValues]

infoName == BuildFQName(namespace, "location", <<"info">>)

weatherGenerationTimeName == BuildFQName(namespace, "weather", <<"generation_time_ms">>)

airqualityGenerationTimeName ==
    BuildFQName(namespace, "airquality", <<"generation_time_ms">>)

\* (c OpenMeteoCollector) Describe: the descriptors sent, in order. It reads
\* no field of the collector and calls nothing.
Describe == <<infoName, weatherGenerationTimeName>>

InfoMetric(loc) ==
    ConstMetric(infoName, 1,
                <<loc.Name, SprintfF(loc.Latitude), SprintfF(loc.Longitude), loc.Timezone>>)

-----------------------------------------------------------------------------
(* The per-category collectors (collector_weather.go,                      *)
(* collector_airquality.go).                                               *)

\* strings.ToLower for the unit symbols of the model.
ToLower(u) ==
    CASE u = "hPa" -> "hpa"
      [] u = "EAQI" -> "eaqi"
      [] u = "°F" -> "°f"
      [] u = "°C" -> "°c"
      [] OTHER -> u

\* collector_weather.go:49-56: the unit part of a weather metric's name.
WeatherUnits(u) ==
    IF u = JStr("°F") THEN "fahrenheit"
    ELSE IF u = JStr("°C") THEN "celsius"
    ELSE IF u = JStr("%") THEN "percent"
    ELSE SprintfS(u)

\* collector_airquality.go:50-56, after the assertion units.(string) held.
AirQualityUnits(u) ==
    ToLower(IF u.s = "μg/m³" THEN "ug_per_m3"
            ELSE IF u.s = "Grains/m³" THEN "grains_per_m3"
            ELSE u.s)

NoValueWarning(name) ==
    LogRecord("warn", "No value for metric returned", name, NoError)

\* A mutant of WeatherVariable: the value is asserted to be a float64 without
\* the nil check (the loop body of the earlier collector_weather.go).
WeatherVariableNoNilCheck(name, resp, locName) ==
    LET units == WeatherUnits(MapGet(resp.CurrentUnits, name))
        fq == BuildFQName(namespace, "weather", <<name, units>>)
        value == MapGet(resp.Current, name)
    IN  IF value.t # "float64"
        THEN [metrics |-> <<>>, log |-> <<>>, panic |-> TRUE]
        ELSE [metrics |-> <<ConstMetric(fq, value.n, <<locName>>)>>,
              log |-> <<>>, panic |-> FALSE]

\* One iteration of the loop of WeatherCollector.Collect.
WeatherVariable(name, resp, locName) ==
    LET units == WeatherUnits(MapGet(resp.CurrentUnits, name))
        fq == BuildFQName(namespace, "weather", <<name, units>>)
        value == MapGet(resp.Current, name)
    IN  IF value # JNil
        THEN IF value.t # "float64"
             THEN \* value.(float64) panics
                  [metrics |-> <<>>, log |-> <<>>, panic |-> TRUE]
             ELSE [metrics |-> <<ConstMetric(fq, value.n, <<locName>>)>>,
                   log |-> <<>>, panic |-> FALSE]
        ELSE [metrics |-> <<>>, log |-> <<NoValueWarning(name)>>, panic |-> FALSE]

\* One iteration of the loop of AirQualityCollector.Collect.
AirQualityVariable(name, resp, locName) ==
    LET u == MapGet(resp.CurrentUnits, name)
        fq == BuildFQName(namespace, "airquality", <<name, AirQualityUnits(u)>>)
        value == MapGet(resp.Current, name)
    IN  IF u.t # "string"
        THEN \* ...Variables[name].(string) panics
             [metrics |-> <<>>, log |-> <<>>, panic |-> TRUE]
        ELSE IF value # JNil
        THEN IF value.t # "float64"
             THEN [metrics |-> <<>>, log |-> <<>>, panic |-> TRUE]
             ELSE [metrics |-> <<ConstMetric(fq, value.n, <<locName>>)>>,
                   log |-> <<>>, panic |-> FALSE]
        ELSE [metrics |-> <<>>, log |-> <<NoValueWarning(name)>>, panic |-> FALSE]

\* A mutant of VariableAt: the variables are walked from the last to the first.
VariableAtReversed(names, k) == names[Len(names) + 1 - k]

\* `for _, name := range ...Variables`: the name of the k-th iteration.
VariableAt(names, k) == names[k]

RECURSIVE CollectVariables(_, _, _, _, _)
\* The loop over the configured variables from iteration k on; a panic ends it.
CollectVariables(category, names, k, resp, locName) ==
    IF k > Len(names)
    THEN [metrics |-> <<>>, log |-> <<>>, panic |-> FALSE]
    ELSE LET name == VariableAt(names, k)
             one == IF category = "weather"
                    THEN WeatherVariable(name, resp, locName)
                    ELSE AirQualityVariable(name, resp, locName)
             rest == CollectVariables(category, names, k + 1, resp, locName)
         IN  IF one.panic
             THEN one
             ELSE [metrics |-> one.metrics \o rest.metrics,
                   log |-> one.log \o rest.log,
                   panic |-> rest.panic]

\* A mutant of GenerationTime: the generation time is sent only when the
\* response has a value for some variable.
GenerationTimeWithValues(gen, resp, locName) ==
    IF DOMAIN resp.Current = {}
    THEN <<>>
    ELSE <<ConstMetric(gen, resp.GenerationtimeMs, <<locName>>)>>

\* collector_weather.go:41-46 / collector_airquality.go:42-47: the generation
\* time of the response, sent before the loop over the variables.
GenerationTime(gen, resp, locName) ==
    <<ConstMetric(gen, resp.GenerationtimeMs, <<locName>>)>>

FailedWarning(locName, e) ==
    LogRecord("warn", "Failed to collect weather information", locName, e)

\* WeatherCollector.Collect / AirQualityCollector.Collect, given what the
\* client call g returned: the metrics sent, the records logged, and whether
\* the call panicked.
CategoryCollect(category, names, gen, g, locName) ==
    IF g.panic
    THEN [metrics |-> <<>>, log |-> g.log, panic |-> TRUE]
    ELSE IF g.err # NoError
    THEN [metrics |-> <<>>, log |-> g.log \o <<FailedWarning(locName, g.err)>>,
          panic |-> FALSE]
    ELSE LET m == CollectVariables(category, names, 1, g.resp, locName)
         IN  [metrics |-> GenerationTime(gen, g.resp, locName) \o m.metrics,
              log |-> g.log \o m.log,
              panic |-> m.panic]

-----------------------------------------------------------------------------
(* Requests (client.go: buildBaseValues, GetWeather, GetAirQuality).       *)

\* A mutant of buildBaseValues: the coordinates exchanged.
buildBaseValuesExchanged(loc, names) ==
    [latitude |-> SprintfF(loc.Longitude), longitude |-> SprintfF(loc.Latitude),
     current |-> names]

buildBaseValues(loc, names) ==
    [latitude |-> SprintfF(loc.Latitude), longitude |-> SprintfF(loc.Longitude),
     current |-> names]

WeatherRequest(l) ==
    [api |-> "forecast", base |-> buildBaseValues(l, l.Weather[1].Variables),
     units |-> <<l.Timezone, l.Weather[1].TemperatureUnit, l.Weather[1].WindSpeedUnit,
                 l.Weather[1].PrecipitationUnit>>]

AirQualityRequest(l) ==
    [api |-> "air-quality", base |-> buildBaseValues(l, l.AirQuality[1].Variables),
     units |-> <<>>]

WeatherCollectorCollect(l, x) ==
    CategoryCollect("weather", l.Weather[1].Variables, weatherGenerationTimeName,
                    GetWeather(l, x), l.Name)

AirQualityCollectorCollect(l, x) ==
    CategoryCollect("airquality", l.AirQuality[1].Variables,
                    airqualityGenerationTimeName, GetAirQuality(l, x), l.Name)

-----------------------------------------------------------------------------
(* Inputs: configuration files and upstream answers.                       *)

\* The unit symbol Open-Meteo reports for a variable.
UnitSymbol(name) ==
    CASE name = "temperature_2m" -> "°F"
      [] name = "visibility" -> "ft"
      [] name = "relative_humidity_2m" -> "%"
      [] name = "soil_temperature_0cm" -> "°C"
      [] name = "wind_speed_10m" -> "km/h"
      [] name = "pm10" -> "μg/m³"
      [] name = "alder_pollen" -> "Grains/m³"
      [] name = "european_aqi" -> "EAQI"
      [] name = "time" -> "iso8601"
      [] name = "interval" -> "seconds"
      [] OTHER -> "hPa"

\* The keys Open-Meteo adds to "current" and "current_units" besides the
\* requested variables (ResponseValues.Time, ResponseValues.Interval).
ResponseFields == {"time", "interval"}

\* The values a key of "current" can hold: null, a number, a string.
CurrentValues == {JNil, JNum(21), JStr("n/a")}

\* The "current" objects for a request of names: "time" and "interval", and
\* any subset of the requested names with any value.
CurrentObjects(names) ==
    UNION {{[k \in K \cup ResponseFields |->
                IF k = "time" THEN JStr("2023-11-11T23:15")
                ELSE IF k = "interval" THEN JNum(900)
                ELSE f[k]] : f \in [K -> CurrentValues]}
           : K \in SUBSET Range(names)}

\* The "current" object that has a number for every requested name.
AllNumbers(names) ==
    {d \in CurrentObjects(names) :
        /\ DOMAIN d = ResponseFields \cup Range(names)
        /\ \A n \in Range(names) : d[n] = JNum(21)}

UnitsObject(current) == [k \in DOMAIN current |-> JStr(UnitSymbol(k))]

Body(valid, hasCurrent, current, hasUnits) ==
    [valid |-> valid, hasCurrent |-> hasCurrent, current |-> current,
     hasUnits |-> hasUnits,
     units |-> IF hasUnits THEN UnitsObject(current) ELSE <<>>,
     generationtime_ms |-> 1]

EmptyCurrent == [k \in {} |-> JNil]

\* What the upstream can answer to one request of names.
Exchanges(names) ==
    {[transport |-> t, status |-> 0, body |-> Body(FALSE, FALSE, EmptyCurrent, FALSE)]
        : t \in {"get_error", "read_error"}}
    \cup {[transport |-> "ok", status |-> 500,
           body |-> Body(FALSE, FALSE, EmptyCurrent, FALSE)]}
    \cup {[transport |-> "ok", status |-> 200,
           body |-> Body(FALSE, FALSE, EmptyCurrent, FALSE)]}
    \cup {[transport |-> "ok", status |-> 200,
           body |-> Body(TRUE, FALSE, EmptyCurrent, FALSE)]}
    \cup {[transport |-> "ok", status |-> 200, body |-> Body(TRUE, TRUE, c, FALSE)]
            : c \in {d \in CurrentObjects(names) : DOMAIN d = ResponseFields}}
    \cup {[transport |-> "ok", status |-> 200, body |-> Body(TRUE, TRUE, c, FALSE)]
            : c \in AllNumbers(names)}
    \cup {[transport |-> "ok", status |-> 304, body |-> Body(TRUE, TRUE, c, TRUE)]
            : c \in AllNumbers(names)}
    \cup {[transport |-> "ok", status |-> 200, body |-> Body(TRUE, TRUE, c, TRUE)]
            : c \in CurrentObjects(names)}

WeatherConfigs(variableLists, tu, wu, pu) ==
    {[Variables |-> v, TemperatureUnit |-> t, WindSpeedUnit |-> w, PrecipitationUnit |-> p]
        : v \in variableLists, t \in tu, w \in wu, p \in pu}

LocationConfigs(names, lats, lons, tzs, weathers, airqualities) ==
    {[Name |-> n, Latitude |-> la, Longitude |-> lo, Timezone |-> tz,
      Weather |-> w, AirQuality |-> a]
        : n \in names, la \in lats, lo \in lons, tz \in tzs,
          w \in {Nil} \cup {Ptr(c) : c \in weathers},
          a \in {Nil} \cup {Ptr([Variables |-> v]) : v \in airqualities}}

\* The locations of the configurations that are scraped.
ScrapeLocations ==
    LocationConfigs({"A"}, {37}, {-122}, {""},
                    WeatherConfigs({<<"visibility", "temperature_2m">>}, {""}, {""}, {""}),
                    {<<"pm10">>})
    \cup LocationConfigs({"B"}, {37}, {-122}, {"UTC"},
                         WeatherConfigs({<<"visibility", "temperature_2m">>},
                                        {""}, {""}, {""}),
                         {<<"pm10">>})
    \cup LocationConfigs({"A"}, {0}, {-122}, {""},
                         WeatherConfigs({<<"temperature_2m">>, <<"pm10">>},
                                        {""}, {""}, {""}),
                         {})

RECURSIVE Sections(_)
\* The number of weather and air_quality sections of a list of locations.
Sections(locs) ==
    IF Len(locs) = 0 THEN 0
    ELSE (IF Head(locs).Weather # Nil THEN 1 ELSE 0)
         + (IF Head(locs).AirQuality # Nil THEN 1 ELSE 0)
         + Sections(Tail(locs))

ScrapeConfigs ==
    {c \in SeqsUpTo(ScrapeLocations, MaxLocations) : Sections(c) <= MaxFetches}

-----------------------------------------------------------------------------
(* The process.                                                            *)

\* A call of Collect that has not been made: the position of its loop, the
\* metrics it sent on its own channel, and its upstream exchanges.
NotCalled == [pc |-> "idle", idx |-> 0, ch |-> <<>>, xs |-> <<>>]

\* The process before main has loaded anything.
NotLoaded ==
    /\ config = <<>>
    /\ err = NoError
    /\ Locations = <<>>
    /\ pc = "main"
    /\ idx = 0
    /\ ch = <<>>
    /\ log = <<>>
    /\ src = <<>>
    /\ logsrc = <<>>
    /\ fetched = <<>>
    /\ prev = <<>>
    /\ aborted = Nil
    /\ other = NotCalled

\* The process started without --variables.list.
Started ==
    /\ listVariables = ""
    /\ NotLoaded

\* A mutant of ListVariablesRequested: the test of the flag's pointer, which
\* is never nil (`if listVariables != nil`, the earlier main).
ListVariablesRequestedPointer(flag) == TRUE

\* `if *listVariables != ""`: the flag was given.
ListVariablesRequested(flag) == flag # ""

\* main when --variables.list is given: the table of the category is printed
\* and the process exits with status 0; nothing is loaded.
ListVariables ==
    /\ pc = "main"
    /\ ListVariablesRequested(listVariables)
    /\ pc' = "listed"
    /\ UNCHANGED <<prev, aborted, other, listVariables, file, config, err, Locations, idx, ch, log, src,
                   logsrc, fetched>>

Init == file \in ScrapeConfigs /\ Started

\* main: ReloadConfig unmarshals the file into config and validates it; on an
\* error the process exits, otherwise the collector is built from
\* config.Locations and registered.
Main ==
    /\ pc = "main"
    /\ ~ListVariablesRequested(listVariables)
    /\ LET r == ConfigValidate(file)
       IN  /\ config' = r.locs
           /\ err' = r.err
           /\ IF r.err # NoError
              THEN /\ pc' = "exit"
                   /\ Locations' = Locations
              ELSE /\ pc' = "serving"
                   /\ Locations' = r.locs
    /\ UNCHANGED <<prev, aborted, other, listVariables, file, idx, ch, log, src, logsrc, fetched>>

\* A mutant of Scrape: the loop of Collect starts at the last location.
ScrapeFromLast ==
    /\ pc \in {"serving", "done"}
    /\ pc' = "info"
    /\ idx' = Len(Locations)
    /\ ch' = <<>>
    /\ log' = <<>>
    /\ src' = <<>>
    /\ logsrc' = <<>>
    /\ fetched' = <<>>
    /\ UNCHANGED <<prev, aborted, other, listVariables, file, config, err, Locations>>

\* A mutant of BeginCollect: the metrics of the scrape before stay on the
\* channel.
BeginCollectKeepingChannel ==
    /\ pc \in {"serving", "done"}
    /\ pc' = "info"
    /\ idx' = 1
    /\ ch' = ch
    /\ log' = <<>>
    /\ src' = src
    /\ logsrc' = <<>>
    /\ fetched' = <<>>
    /\ aborted' = Nil
    /\ UNCHANGED <<listVariables, file, config, err, Locations, other>>

\* The registry calls Collect with a new channel: the loop starts at the
\* first location, and the histories of the scrape start empty.
BeginCollect ==
    /\ pc \in {"serving", "done"}
    /\ pc' = "info"
    /\ idx' = 1
    /\ ch' = <<>>
    /\ log' = <<>>
    /\ src' = <<>>
    /\ logsrc' = <<>>
    /\ fetched' = <<>>
    /\ aborted' = Nil
    /\ UNCHANGED <<listVariables, file, config, err, Locations, other>>

\* A scrape.
Scrape == BeginCollect /\ UNCHANGED prev

\* A scrape, with the exchanges of the scrape before it recorded in prev.
ScrapeRecording == BeginCollect /\ prev' = fetched

\* collector.go:61-69.
EmitLocationInfo ==
    /\ pc = "info"
    /\ ch' = Append(ch, InfoMetric(Locations[idx]))
    /\ src' = Append(src, <<idx, "info">>)
    /\ pc' = "weather"
    /\ UNCHANGED <<prev, aborted, other, listVariables, file, config, err, Locations, idx, log, logsrc, fetched>>

Sent(r, category) ==
    /\ ch' = ch \o r.metrics
    /\ src' = src \o [i \in 1..Len(r.metrics) |-> <<idx, category>>]
    /\ log' = log \o r.log
    /\ logsrc' = logsrc \o [i \in 1..Len(r.log) |-> <<idx, category>>]

\* collector.go:71-74 when loc.Weather != nil.
WeatherCollect ==
    /\ pc = "weather"
    /\ Locations[idx].Weather # Nil
    /\ \E x \in Exchanges(Locations[idx].Weather[1].Variables) :
          LET r == WeatherCollectorCollect(Locations[idx], x)
          IN  /\ Sent(r, "weather")
              /\ fetched' = fetched \o
                    [k \in 1..Len(Requests(x)) |->
                        [idx |-> idx, category |-> "weather",
                         req |-> WeatherRequest(Locations[idx]),
                         x |-> Requests(x)[k]]]
              /\ pc' = IF r.panic THEN "crashed" ELSE "airquality"
    /\ UNCHANGED <<prev, aborted, other, listVariables, file, config, err, Locations, idx>>

\* collector.go:71 when loc.Weather == nil.
WeatherSkip ==
    /\ pc = "weather"
    /\ Locations[idx].Weather = Nil
    /\ pc' = "airquality"
    /\ UNCHANGED <<prev, aborted, other, listVariables, file, config, err, Locations, idx, ch, log, src, logsrc, fetched>>

\* The end of one iteration of the loop of Collect.
NextLocation ==
    /\ idx' = idx + 1
    /\ pc' = IF idx = Len(Locations) THEN "done" ELSE "info"

\* collector.go:76-79 when loc.AirQuality != nil, and the end of the iteration.
AirQualityCollect ==
    /\ pc = "airquality"
    /\ Locations[idx].AirQuality # Nil
    /\ \E x \in Exchanges(Locations[idx].AirQuality[1].Variables) :
          LET r == AirQualityCollectorCollect(Locations[idx], x)
          IN  /\ Sent(r, "airquality")
              /\ fetched' = fetched \o
                    [k \in 1..Len(Requests(x)) |->
                        [idx |-> idx, category |-> "airquality",
                         req |-> AirQualityRequest(Locations[idx]),
                         x |-> Requests(x)[k]]]
              /\ IF r.panic
                 THEN pc' = "crashed" /\ idx' = idx
                 ELSE NextLocation
    /\ UNCHANGED <<prev, aborted, other, listVariables, file, config, err, Locations>>

\* collector.go:76 when loc.AirQuality == nil, and the end of the iteration.
AirQualitySkip ==
    /\ pc = "airquality"
    /\ Locations[idx].AirQuality = Nil
    /\ NextLocation
    /\ UNCHANGED <<prev, aborted, other, listVariables, file, config, err, Locations, ch, log, src, logsrc, fetched>>

Next ==
    \/ Main
    \/ Scrape
    \/ EmitLocationInfo
    \/ WeatherCollect
    \/ WeatherSkip
    \/ AirQualityCollect
    \/ AirQualitySkip

Spec == Init /\ [][Next]_vars

\* The values kingpin's Enum("weather", "airquality") leaves in the flag.
ListVariablesFlags == {"", "weather", "airquality"}

\* The process started with or without --variables.list.
InitMain ==
    /\ listVariables \in ListVariablesFlags
    /\ file \in ScrapeConfigs
    /\ NotLoaded

NextMain == ListVariables \/ Next

SpecMain == InitMain /\ [][NextMain]_vars

-----------------------------------------------------------------------------
(* Scrape after scrape of one location, each scrape knowing the exchanges  *)
(* of the one before it.                                                   *)

CyclesConfigs == [1..1 -> ScrapeLocations]

InitCycles == file \in CyclesConfigs /\ Started

NextCycles ==
    \/ Main
    \/ ScrapeRecording
    \/ EmitLocationInfo
    \/ WeatherCollect
    \/ WeatherSkip
    \/ AirQualityCollect
    \/ AirQualitySkip

SpecCycles == InitCycles /\ [][NextCycles]_vars

-----------------------------------------------------------------------------
(* A scrape whose caller goes away. Collect(ch chan<- prometheus.Metric)   *)
(* takes no context and no done channel, its loop selects on nothing, and  *)
(* doRequest calls http.Get, which carries no context: nothing the caller  *)
(* does reaches Collect, so no step of Collect reads aborted.              *)

\* The caller of the scrape in flight goes away (the connection is closed,
\* or the scrape timed out).
Abort ==
    /\ pc \in {"info", "weather", "airquality"}
    /\ aborted = Nil
    /\ aborted' = Ptr(Len(ch))
    /\ UNCHANGED <<prev, other, listVariables, file, config, err, Locations, pc, idx, ch,
                   log, src, logsrc, fetched>>

NextAbort ==
    \/ Main
    \/ Scrape
    \/ Abort
    \/ EmitLocationInfo
    \/ WeatherCollect
    \/ WeatherSkip
    \/ AirQualityCollect
    \/ AirQualitySkip

SpecAbort == InitCycles /\ [][NextAbort]_vars

-----------------------------------------------------------------------------
(* Two scrapes in flight. The registry may call Collect again while a call *)
(* is running; each call has its own channel, its own loop variable and    *)
(* its own collectors (collector.go:60,72,77), and shares with the other   *)
(* call the receiver's Locations only. The second call is the record       *)
(* other; its steps are the steps of the first, as a function of its own   *)
(* position.                                                               *)

\* A mutant of LoopIndex: the position of the loop is shared by the calls.
LoopIndexShared(s) == IF idx \in 1..Len(Locations) THEN idx ELSE s.idx

\* `for _, loc := range c.Locations`: the position of the loop of a call.
LoopIndex(s) == s.idx

\* The state of a call of Collect when it starts.
Called == [pc |-> "info", idx |-> 1, ch |-> <<>>, xs |-> <<>>]

\* Whether the step a call is at performs a GET.
Fetches(locs, s, i) ==
    \/ s.pc = "weather" /\ locs[i].Weather # Nil
    \/ s.pc = "airquality" /\ locs[i].AirQuality # Nil

\* One step of a call of Collect at location i, the upstream answering x
\* when the step performs a GET (collector.go:61-79).
CollectStep(locs, s, i, x) ==
    LET loc == locs[i]
        next == [s EXCEPT !.idx = s.idx + 1,
                          !.pc = IF s.idx >= Len(locs) THEN "done" ELSE "info"]
    IN  CASE s.pc = "info" ->
                [s EXCEPT !.ch = Append(s.ch, InfoMetric(loc)), !.pc = "weather"]
          [] s.pc = "weather" /\ loc.Weather = Nil ->
                [s EXCEPT !.pc = "airquality"]
          [] s.pc = "weather" /\ loc.Weather # Nil ->
                LET r == WeatherCollectorCollect(loc, x)
                IN  [s EXCEPT !.ch = s.ch \o r.metrics,
                              !.xs = Append(s.xs, x),
                              !.pc = IF r.panic THEN "crashed" ELSE "airquality"]
          [] s.pc = "airquality" /\ loc.AirQuality = Nil ->
                next
          [] s.pc = "airquality" /\ loc.AirQuality # Nil ->
                LET r == AirQualityCollectorCollect(loc, x)
                IN  IF r.panic
                    THEN [s EXCEPT !.ch = s.ch \o r.metrics,
                                   !.xs = Append(s.xs, x),
                                   !.pc = "crashed"]
                    ELSE [next EXCEPT !.ch = s.ch \o r.metrics,
                                      !.xs = Append(s.xs, x)]

\* The answers the upstream may give to the step a call is at.
ExchangesAt(locs, s, i) ==
    IF s.pc = "weather" /\ locs[i].Weather # Nil
    THEN Exchanges(locs[i].Weather[1].Variables)
    ELSE IF s.pc = "airquality" /\ locs[i].AirQuality # Nil
         THEN Exchanges(locs[i].AirQuality[1].Variables)
         ELSE {NoExchange}

\* The registry calls Collect while the process serves, whatever the first
\* call is doing.
OtherBegin ==
    /\ pc \in {"serving", "info", "weather", "airquality", "done"}
    /\ other.pc \in {"idle", "done"}
    /\ other' = Called
    /\ UNCHANGED <<prev, aborted, listVariables, file, config, err, Locations, pc, idx,
                   ch, log, src, logsrc, fetched>>

\* A step of the second call. A panic in it ends the process, and with it
\* the first call.
OtherStep ==
    /\ pc # "crashed"
    /\ other.pc \in {"info", "weather", "airquality"}
    /\ \E x \in ExchangesAt(Locations, other, LoopIndex(other)) :
          /\ other' = CollectStep(Locations, other, LoopIndex(other), x)
          /\ pc' = IF other'.pc = "crashed" THEN "crashed" ELSE pc
    /\ UNCHANGED <<prev, aborted, listVariables, file, config, err, Locations, idx, ch,
                   log, src, logsrc, fetched>>

\* Two locations, the first with a weather section, the second with an
\* air_quality section.
ConcurrentConfigs ==
    {f \in [1..2 -> ScrapeLocations] :
        /\ f[1].Name = "A" /\ f[1].Latitude # 0
        /\ f[1].Weather # Nil /\ f[1].AirQuality = Nil
        /\ f[2].Name = "B"
        /\ f[2].Weather = Nil /\ f[2].AirQuality # Nil}

InitConcurrent == file \in ConcurrentConfigs /\ Started

NextConcurrent ==
    \/ Main
    \/ Scrape
    \/ EmitLocationInfo
    \/ WeatherCollect
    \/ WeatherSkip
    \/ AirQualityCollect
    \/ AirQualitySkip
    \/ OtherBegin
    \/ OtherStep

SpecConcurrent == InitConcurrent /\ [][NextConcurrent]_vars

-----------------------------------------------------------------------------
(* Validation alone, over a wider set of configuration files: every single *)
(* location of ValidateLocations, and the lists of up to MaxLocations      *)
(* locations of ValidateListLocations.                                     *)

ValidateLocations ==
    LocationConfigs({"", "A"}, {0, 37}, {0, -122}, {"", "UTC"},
                    WeatherConfigs({<<>>, <<"temperature_2m">>,
                                    <<"temperature_2m", "pm10">>, <<"bogus">>},
                                   {"", "celsius", "kelvin"}, {"", "kmh", "kph"},
                                   {"", "mm", "cm"}),
                    {<<>>, <<"pm10">>, <<"pm10", "temperature_2m">>})

ValidateListLocations ==
    LocationConfigs({"", "A", "B"}, {0, 37}, {-122}, {""},
                    WeatherConfigs({<<"temperature_2m">>, <<"pm10">>},
                                   {"", "kelvin"}, {""}, {""}),
                    {<<"pm10">>})

ValidateConfigs ==
    SeqsUpTo(ValidateListLocations, MaxLocations) \cup [1..1 -> ValidateLocations]

InitValidate == file \in ValidateConfigs /\ Started

\* A second call of (c *Config) Validate() on the configuration the first call
\* accepted; c.Locations and the collector's Locations share their elements.
Revalidate ==
    /\ pc = "serving"
    /\ LET r == ConfigValidate(config)
       IN  /\ config' = r.locs
           /\ Locations' = r.locs
           /\ err' = r.err
    /\ pc' = "revalidated"
    /\ UNCHANGED <<prev, aborted, other, listVariables, file, idx, ch, log, src, logsrc, fetched>>

NextValidate == Main \/ Revalidate

SpecValidate == InitValidate /\ [][NextValidate]_vars

-----------------------------------------------------------------------------
(* Scrapes of one location that requests one variable per section, over a  *)
(* wider set of variables, so that every unit symbol of UnitSymbol is      *)
(* answered.                                                               *)

UnitsLocations ==
    LocationConfigs({"A"}, {37}, {-122}, {"UTC"},
                    WeatherConfigs({<<"temperature_2m">>, <<"soil_temperature_0cm">>,
                                    <<"relative_humidity_2m">>, <<"pressure_msl">>,
                                    <<"wind_speed_10m">>},
                                   {""}, {""}, {""}),
                    {<<"pm10">>, <<"alder_pollen">>, <<"european_aqi">>})

UnitsConfigs == [1..1 -> UnitsLocations]

InitUnits == file \in UnitsConfigs /\ Started

SpecUnits == InitUnits /\ [][Next]_vars

-----------------------------------------------------------------------------
(* What the properties speak of.                                           *)

Categories == {"weather", "airquality"}

CycleEnded == pc \in {"done", "crashed"}

Configured(i, category) ==
    IF category = "weather"
    THEN Locations[i].Weather # Nil
    ELSE Locations[i].AirQuality # Nil

RequestedNames(i, category) ==
    IF category = "weather"
    THEN Locations[i].Weather[1].Variables
    ELSE Locations[i].AirQuality[1].Variables

\* The metrics of ch that <<i, stage>> sent, in the order sent.
RECURSIVE MetricsFromUpTo(_, _, _)
MetricsFromUpTo(i, stage, k) ==
    IF k = 0 THEN <<>>
    ELSE IF src[k] = <<i, stage>>
         THEN Append(MetricsFromUpTo(i, stage, k - 1), ch[k])
         ELSE MetricsFromUpTo(i, stage, k - 1)

MetricsFrom(i, stage) == MetricsFromUpTo(i, stage, Len(ch))

IsVariableMetric(m) == m.fqName[3] # "generation_time_ms"

VariableMetrics(i, category) == SelectSeq(MetricsFrom(i, category), IsVariableMetric)

\* The variable names of the observations <<i, category>> sent, in the order sent.
EmittedNames(i, category) ==
    [k \in 1..Len(VariableMetrics(i, category)) |-> VariableMetrics(i, category)[k].fqName[3]]

\* The GETs of this scrape for <<i, category>>.
FetchesOf(i, category) ==
    {k \in 1..Len(fetched) : fetched[k].idx = i /\ fetched[k].category = category}

\* The client returned an error / returned a response.
FetchFailed(x) == GetResponse(x).err # NoError

FetchReturned(x) == GetResponse(x).err = NoError /\ ~GetResponse(x).panic

HasNumber(x, n) == n \in DOMAIN x.body.current /\ x.body.current[n].t = "float64"

HasNull(x, n) == n \in DOMAIN x.body.current /\ x.body.current[n].t = "nil"

HasString(x, n) == n \in DOMAIN x.body.current /\ x.body.current[n].t = "string"

RECURSIVE NumericNamesUpTo(_, _, _)
NumericNamesUpTo(names, x, k) ==
    IF k = 0 THEN <<>>
    ELSE IF HasNumber(x, names[k])
         THEN Append(NumericNamesUpTo(names, x, k - 1), names[k])
         ELSE NumericNamesUpTo(names, x, k - 1)

\* The requested names that have a number in the answer, in configured order.
NumericNames(names, x) == NumericNamesUpTo(names, x, Len(names))

IsPrefix(s, t) == Len(s) <= Len(t) /\ \A k \in 1..Len(s) : s[k] = t[k]

\* The scrape panicked while <<i, category>> was being collected.
CrashedAt(i, category) ==
    /\ pc = "crashed"
    /\ Len(fetched) > 0
    /\ fetched[Len(fetched)].idx = i
    /\ fetched[Len(fetched)].category = category

\* <<i, category>> sent its generation time and then one observation, with the
\* upstream number, for every requested variable that has a number in x.
FullMetrics(i, category, x) ==
    LET ms == MetricsFrom(i, category)
        names == NumericNames(RequestedNames(i, category), x)
    IN  /\ Len(ms) = Len(names) + 1
        /\ ~IsVariableMetric(ms[1])
        /\ \A k \in 1..Len(names) :
              /\ ms[k + 1].fqName[3] = names[k]
              /\ ms[k + 1].value = x.body.current[names[k]].n
              /\ ms[k + 1].labels = <<Locations[i].Name>>

\* Location i has exactly one location-info observation, of value 1, labelled
\* with its name, coordinates and time zone.
OneInfo(i) ==
    /\ Len(MetricsFrom(i, "info")) = 1
    /\ MetricsFrom(i, "info")[1].fqName = <<"openmeteo", "location", "info">>
    /\ MetricsFrom(i, "info")[1].value = 1
    /\ Len(MetricsFrom(i, "info")[1].labels) = 4
    /\ MetricsFrom(i, "info")[1].labels[1] = Locations[i].Name

-----------------------------------------------------------------------------
C2_InfoForEveryLocation ==
    CycleEnded => \A i \in 1..Len(Locations) : OneInfo(i)

(* C3. No scrape ends in a panic: whatever the upstream answers, Collect   *)
(* is never left by a crash.                                               *)
C3_ScrapeNeverCrashes == pc # "crashed"

(* C6. When a scrape in which an answer held a string for a requested      *)
(* variable has ended, every location was processed, every configured      *)
(* category was fetched, and every requested variable with a number in a   *)
(* returned answer has its observation.                                    *)
C6_NonNumericValueIsolated ==
    (/\ CycleEnded
     /\ \E k \in 1..Len(fetched) :
           /\ FetchReturned(fetched[k].x)
           /\ \E n \in Range(RequestedNames(fetched[k].idx, fetched[k].category)) :
                 HasString(fetched[k].x, n)) =>
        \A i \in 1..Len(Locations) :
            /\ OneInfo(i)
            /\ \A c \in Categories :
                  Configured(i, c) =>
                    /\ Cardinality(FetchesOf(i, c)) = 1
                    /\ \A k \in FetchesOf(i, c) :
                          FetchReturned(fetched[k].x) =>
                            EmittedNames(i, c)
                              = NumericNames(RequestedNames(i, c), fetched[k].x)

(* C4. The variable observations of a (location, category) are in the      *)
(* order of the configured variable list: they are a prefix of the         *)
(* requested names that have a number in the answer, taken in configured   *)
(* order, and all of them once the category is done.                       *)
C4_ConfiguredOrder ==
    \A i \in 1..Len(Locations) : \A c \in Categories :
        /\ FetchesOf(i, c) = {} => EmittedNames(i, c) = <<>>
        /\ \A k \in FetchesOf(i, c) :
              LET expected == NumericNames(RequestedNames(i, c), fetched[k].x)
              IN  /\ IsPrefix(EmittedNames(i, c), expected)
                  /\ (FetchReturned(fetched[k].x) /\ ~CrashedAt(i, c))
                        => EmittedNames(i, c) = expected

\* Two variables, requested in an order that is not the order of their names,
\* were both observed.
C4_Witness ==
    \E i \in 1..Len(Locations) :
        EmittedNames(i, "weather") = <<"visibility", "temperature_2m">>

\* Every requested name is in the answer, with a number or null.
NumbersAndNulls(names, x) == \A n \in Range(names) : HasNumber(x, n) \/ HasNull(x, n)

NoValueWarningsFor(i, c, n) ==
    {k \in 1..Len(log) : logsrc[k] = <<i, c>> /\ log[k] = NoValueWarning(n)}

(* C5. Missing-value skip: when a returned answer holds, for every         *)
(* requested variable, a number or null, mapping it does not panic; a      *)
(* variable with null has no observation and exactly one warning naming    *)
(* it; a variable with a number has its observation, with that number; and *)
(* the number of variable observations is the number of requested          *)
(* variables with a number.                                                *)
C5_MissingValueSkipped ==
    \A k \in 1..Len(fetched) :
        LET f == fetched[k]
            names == RequestedNames(f.idx, f.category)
        IN  (FetchReturned(f.x) /\ NumbersAndNulls(names, f.x)) =>
              /\ ~CrashedAt(f.idx, f.category)
              /\ \A n \in Range(names) :
                    HasNull(f.x, n) =>
                      /\ n \notin Range(EmittedNames(f.idx, f.category))
                      /\ Cardinality(NoValueWarningsFor(f.idx, f.category, n)) = 1
              /\ FullMetrics(f.idx, f.category, f.x)
              /\ Len(VariableMetrics(f.idx, f.category))
                    = Cardinality({n \in Range(names) : ~HasNull(f.x, n)})

\* An answer with null for visibility and a number for temperature_2m was
\* mapped to the single observation of temperature_2m.
C5_Witness ==
    \E k \in 1..Len(fetched) :
        /\ fetched[k].category = "weather"
        /\ FetchReturned(fetched[k].x)
        /\ HasNull(fetched[k].x, "visibility")
        /\ HasNumber(fetched[k].x, "temperature_2m")
        /\ EmittedNames(fetched[k].idx, "weather") = <<"temperature_2m">>
        /\ Cardinality(NoValueWarningsFor(fetched[k].idx, "weather", "visibility")) = 1

(* C10. Once validation has succeeded, every location handed to the        *)
(* collector has a time zone ("auto" when the file left it blank) and      *)
(* every weather section has its three units (fahrenheit, mph, inch when   *)
(* left blank).                                                            *)
C10_DefaultsFilled ==
    pc \notin {"main", "exit"} =>
        \A i \in 1..Len(Locations) :
            /\ Locations[i].Timezone # ""
            /\ file[i].Timezone = "" => Locations[i].Timezone = "auto"
            /\ Locations[i].Weather # Nil =>
                  /\ Locations[i].Weather[1].TemperatureUnit # ""
                  /\ Locations[i].Weather[1].WindSpeedUnit # ""
                  /\ Locations[i].Weather[1].PrecipitationUnit # ""

-----------------------------------------------------------------------------
(* Validation.                                                             *)

Validated == pc # "main"

Rejected == Validated /\ err # NoError

\* A location of the file lacks a name, a latitude, a longitude, or both sections.
MissingRequired(l) ==
    \/ l.Name = ""
    \/ l.Latitude = 0
    \/ l.Longitude = 0
    \/ (l.Weather = Nil /\ l.AirQuality = Nil)

(* C7. Validation returns an error when the list of locations is empty and *)
(* when some location has no name, a latitude of 0, a longitude of 0, or   *)
(* neither section; a configuration it accepts has none of these.          *)
C7_RequiredFields ==
    Validated =>
        /\ (Len(file) = 0 \/ \E i \in 1..Len(file) : MissingRequired(file[i]))
              => (err # NoError /\ pc = "exit")
        /\ err = NoError
              => (Len(file) > 0 /\ \A i \in 1..Len(file) : ~MissingRequired(file[i]))

\* A location whose only defect is its longitude of 0 was rejected.
C7_Witness ==
    /\ Rejected
    /\ Len(file) = 1
    /\ file[1].Name = "A"
    /\ file[1].Latitude = 37
    /\ file[1].Longitude = 0
    /\ file[1].Weather = Nil
    /\ file[1].AirQuality = Ptr([Variables |-> <<"pm10">>])

UnitRejected(u, valid) == u # "" /\ u \notin valid

\* A section of the location is present and has no variable, a variable that
\* is not in the catalog of its category, or (weather) a unit that is set and
\* is not in its list.
SectionDefect(l) ==
    \/ /\ l.Weather # Nil
       /\ \/ l.Weather[1].Variables = <<>>
          \/ \E n \in Range(l.Weather[1].Variables) : n \notin WeatherVariables
          \/ UnitRejected(l.Weather[1].TemperatureUnit, ValidTemperatureUnits)
          \/ UnitRejected(l.Weather[1].WindSpeedUnit, ValidWindSpeedUnits)
          \/ UnitRejected(l.Weather[1].PrecipitationUnit, ValidPrecipitationUnits)
    \/ /\ l.AirQuality # Nil
       /\ \/ l.AirQuality[1].Variables = <<>>
          \/ \E n \in Range(l.AirQuality[1].Variables) : n \notin AirQualityVariables

(* C8. Validation returns an error when a section of some location has an  *)
(* empty variable list, a variable that is not in the catalog of the       *)
(* section's category, or (weather) a configured unit outside its list; a  *)
(* name that is only in the other category's catalog is not accepted.      *)
C8_SectionsChecked ==
    Validated =>
        ((\E i \in 1..Len(file) : SectionDefect(file[i])) => (err # NoError /\ pc = "exit"))

\* A weather section that lists pm10, a variable of the air-quality catalog
\* only, in an otherwise valid location was rejected for it.
C8_Witness ==
    /\ Rejected
    /\ Len(file) = 1
    /\ ~MissingRequired(file[1])
    /\ file[1].Weather # Nil
    /\ file[1].Weather[1].Variables = <<"temperature_2m", "pm10">>
    /\ err.msg = "invalid current weather variable, %s, for location: %s"
    /\ err.args[1] = "pm10"

LocationInvalid(l) == MissingRequired(l) \/ SectionDefect(l)

\* The first location of the file that validation rejects.
Offending ==
    CHOOSE i \in 1..Len(file) :
        /\ LocationInvalid(file[i])
        /\ \A j \in 1..(i - 1) : ~LocationInvalid(file[j])

\* The error carries the name of location l.
NamesLocation(e, l) ==
    /\ l.Name # ""
    /\ Len(e.args) > 0
    /\ e.args[Len(e.args)] = l.Name

\* The field the error speaks of is a field of l that validation rejects.
NamesField(e, l) ==
    CASE e.msg = "invalid location, no name provided" -> l.Name = ""
      [] e.msg = "invalid location, no latitude provided: %s" -> l.Latitude = 0
      [] e.msg = "invalid location, no longitude provided: %s" -> l.Longitude = 0
      [] e.msg = "invalid location, no weather or air_quality sections defined: %s" ->
            l.Weather = Nil /\ l.AirQuality = Nil
      [] e.msg = "invalid weather config, no entries for variables: %s" ->
            l.Weather # Nil /\ l.Weather[1].Variables = <<>>
      [] e.msg = "invalid current weather variable, %s, for location: %s" ->
            /\ l.Weather # Nil
            /\ e.args[1] \in Range(l.Weather[1].Variables)
            /\ e.args[1] \notin WeatherVariables
      [] e.msg = "invalid temperature_unit, %s, for location: %s" ->
            /\ l.Weather # Nil
            /\ e.args[1] = l.Weather[1].TemperatureUnit
            /\ UnitRejected(e.args[1], ValidTemperatureUnits)
      [] e.msg = "invalid wind_speed_unit, %s, for location: %s" ->
            /\ l.Weather # Nil
            /\ e.args[1] = l.Weather[1].WindSpeedUnit
            /\ UnitRejected(e.args[1], ValidWindSpeedUnits)
      [] e.msg = "invalid precipitation_unit, %s, for location: %s" ->
            /\ l.Weather # Nil
            /\ e.args[1] = l.Weather[1].PrecipitationUnit
            /\ UnitRejected(e.args[1], ValidPrecipitationUnits)
      [] e.msg = "invalid air quality config, no entries for variables: %s" ->
            l.AirQuality # Nil /\ l.AirQuality[1].Variables = <<>>
      [] e.msg = "invalid current air quality variable, %s, for location: %s" ->
            /\ l.AirQuality # Nil
            /\ e.args[1] \in Range(l.AirQuality[1].Variables)
            /\ e.args[1] \notin AirQualityVariables
      [] OTHER -> FALSE

-----------------------------------------------------------------------------
(* C11. Validating a configuration that Validate already accepted succeeds  *)
(* again and leaves every field of the configuration as the first run left  *)
(* it.                                                                      *)
C11_ValidateIdempotent ==
    [][Revalidate => (err' = NoError /\ config' = config)]_vars

\* A configuration whose blank weather unit the first run filled in has been
\* validated a second time.
C11_Witness ==
    /\ pc = "revalidated"
    /\ err = NoError
    /\ \E i \in 1..Len(file) :
          /\ file[i].Weather # Nil
          /\ file[i].Weather[1].TemperatureUnit = ""
          /\ config[i].Weather[1].TemperatureUnit = defaultTemperatureUnit

-----------------------------------------------------------------------------
(* C12. When any location of the file is invalid, loading fails for the    *)
(* whole configuration: the process exits with the error, the collector is *)
(* never given a location, and no scrape runs (no request is made, no      *)
(* metric is sent).                                                        *)
C12_InvalidLocationRefusesStart ==
    (\E i \in 1..Len(file) : LocationInvalid(file[i])) =>
        /\ pc \in {"main", "exit"}
        /\ pc = "exit" => err # NoError
        /\ Locations = <<>>
        /\ ch = <<>>
        /\ fetched = <<>>

\* The process has exited on a file whose first location is valid and whose
\* second is not.
C12_Witness ==
    /\ pc = "exit"
    /\ Len(file) = 2
    /\ ~LocationInvalid(file[1])
    /\ LocationInvalid(file[2])

-----------------------------------------------------------------------------
(* Names of the variable observations.                                     *)

\* The table of unit tokens: the five symbols with a token of their own, and
\* the lower-cased symbol for any other.
Canonicalize(u) ==
    CASE u = "°F" -> "fahrenheit"
      [] u = "°C" -> "celsius"
      [] u = "%" -> "percent"
      [] u = "μg/m³" -> "ug_per_m3"
      [] u = "Grains/m³" -> "grains_per_m3"
      [] OTHER -> ToLower(u)

\* The positions of ch that hold a variable observation of a section.
VariablePositions ==
    {k \in 1..Len(ch) : src[k][2] \in Categories /\ IsVariableMetric(ch[k])}

\* The unit symbol the upstream reported for the variable of the observation
\* at position k of ch.
ReportedUnit(k) ==
    LET f == CHOOSE f \in FetchesOf(src[k][1], src[k][2]) : TRUE
    IN  MapGet(fetched[f].x.body.units, ch[k].fqName[3])

(* C13. The unit token in the name of every variable observation, of       *)
(* either category, is the one the table gives for the reported symbol:    *)
(* fahrenheit, celsius, percent, ug_per_m3, grains_per_m3, and the         *)
(* lower-cased symbol for any other (hpa for hPa).                         *)
C13_OneCanonicalTable ==
    \A k \in VariablePositions :
        ReportedUnit(k).t = "string" =>
            ch[k].fqName[4] = Canonicalize(ReportedUnit(k).s)

(* C14. Every variable observation is named openmeteo, its category        *)
(* (weather or airquality), its variable and the canonical token of its    *)
(* unit, and carries one label, the name of the location it was fetched    *)
(* for; temperature_2m reported in degrees Fahrenheit is named             *)
(* openmeteo_weather_temperature_2m_fahrenheit.                            *)
C14_ObservationNames ==
    \A k \in VariablePositions :
        /\ ch[k].labels = <<Locations[src[k][1]].Name>>
        /\ ch[k].fqName[3] \in Range(RequestedNames(src[k][1], src[k][2]))
        /\ ReportedUnit(k).t = "string" =>
              ch[k].fqName = <<"openmeteo", src[k][2], ch[k].fqName[3],
                               Canonicalize(ReportedUnit(k).s)>>
        /\ (src[k][2] = "weather" /\ ch[k].fqName[3] = "temperature_2m"
              /\ ReportedUnit(k) = JStr("°F")) =>
              ch[k].fqName = <<"openmeteo", "weather", "temperature_2m", "fahrenheit">>

-----------------------------------------------------------------------------
(* The client.                                                             *)

\* The exchanges of this scrape in which the upstream sent an answer.
Answered == {k \in 1..Len(fetched) : fetched[k].x.transport = "ok"}

(* C15. A fetch whose answer has a status outside 200..299 returns         *)
(* ErrNon2XXResponse and no response; a fetch returns a response only for  *)
(* a status inside 200..299.                                               *)
C15_Non2XXIsAnError ==
    \A k \in Answered :
        LET x == fetched[k].x
            g == GetResponse(x)
        IN  /\ x.status \notin 200..299 =>
                  (g.err = ErrNon2XXResponse /\ MetricsFrom(fetched[k].idx, fetched[k].category) = <<>>)
            /\ FetchReturned(x) => x.status \in 200..299

(* C16. A body that is not valid JSON, or that is valid JSON without a     *)
(* "current" object or without a "current_units" object, makes the fetch   *)
(* return an error: the collector logs its warning, sends nothing for the  *)
(* section, and the scrape goes on.                                        *)
C16_MalformedBodyIsAnError ==
    \A k \in Answered :
        LET x == fetched[k].x
            i == fetched[k].idx
            c == fetched[k].category
        IN  (x.status = 200 /\ (~x.body.valid \/ ~x.body.hasCurrent \/ ~x.body.hasUnits)) =>
                /\ FetchFailed(x)
                /\ ~CrashedAt(i, c)
                /\ MetricsFrom(i, c) = <<>>
                /\ \E j \in 1..Len(log) :
                      /\ logsrc[j] = <<i, c>>
                      /\ log[j].msg = "Failed to collect weather information"

(* C17. In every response a fetch returns, neither the values nor the      *)
(* units have the key "time" or the key "interval", and every other key    *)
(* of the upstream "current" object is in the values with its value.       *)
C17_ReservedKeysStripped ==
    \A k \in Answered :
        LET x == fetched[k].x
            resp == GetResponse(x).resp
        IN  FetchReturned(x) =>
                /\ DOMAIN resp.Current \cap {"time", "interval"} = {}
                /\ DOMAIN resp.CurrentUnits \cap {"time", "interval"} = {}
                /\ \A n \in DOMAIN x.body.current \ {"time", "interval"} :
                      /\ n \in DOMAIN resp.Current
                      /\ resp.Current[n] = x.body.current[n]

\* A fetch returned a response for an answer whose "current" and
\* "current_units" had "time", "interval" and a requested variable.
C17_Witness ==
    \E k \in Answered :
        /\ FetchReturned(fetched[k].x)
        /\ {"time", "interval", "temperature_2m"} \subseteq DOMAIN fetched[k].x.body.current
        /\ {"time", "interval", "temperature_2m"} \subseteq DOMAIN fetched[k].x.body.units
        /\ DOMAIN GetResponse(fetched[k].x).resp.Current = {"temperature_2m"}

-----------------------------------------------------------------------------
(* Descriptors and generation times.                                       *)

\* The names that do not depend on the configuration.
StaticNames == {infoName, weatherGenerationTimeName, airqualityGenerationTimeName}

(* C18. Describe advertises exactly the three static descriptors, location *)
(* info and the generation times of weather and air quality, and no        *)
(* descriptor of a variable; registering makes no upstream request; every  *)
(* observation with a static name that Collect sends has its descriptor    *)
(* among those Describe advertised.                                        *)
C18_DescribeStaticDescriptors ==
    pc \notin {"main", "exit"} =>
        /\ Range(Describe) = StaticNames
        /\ pc = "serving" => fetched = <<>>
        /\ \A k \in 1..Len(ch) :
              ch[k].fqName \in StaticNames => ch[k].fqName \in Range(Describe)

\* The generation-time observations that <<i, category>> sent.
GenerationTimes(i, category) ==
    SelectSeq(MetricsFrom(i, category), LAMBDA m : ~IsVariableMetric(m))

(* C19. A (location, category) whose fetch returned a response has sent    *)
(* exactly one generation_time_ms observation of its category, labelled    *)
(* with the location, before any variable observation, whatever the        *)
(* answer holds for the requested variables; one whose fetch failed has    *)
(* sent none.                                                              *)
C19_OneGenerationTime ==
    \A k \in 1..Len(fetched) :
        LET x == fetched[k].x
            i == fetched[k].idx
            c == fetched[k].category
            ms == MetricsFrom(i, c)
        IN  /\ FetchReturned(x) =>
                  /\ Len(GenerationTimes(i, c)) = 1
                  /\ ms[1] = ConstMetric(<<"openmeteo", c, "generation_time_ms">>,
                                         x.body.generationtime_ms,
                                         <<Locations[i].Name>>)
            /\ FetchFailed(x) => GenerationTimes(i, c) = <<>>

\* In one scrape a fetch that returned a response without any requested
\* variable has sent its generation time, and a fetch that failed has sent
\* nothing.
C19_Witness ==
    /\ \E k \in 1..Len(fetched) :
          /\ FetchReturned(fetched[k].x)
          /\ DOMAIN fetched[k].x.body.current = ResponseFields
          /\ Len(MetricsFrom(fetched[k].idx, fetched[k].category)) = 1
    /\ \E k \in 1..Len(fetched) :
          /\ FetchFailed(fetched[k].x)
          /\ MetricsFrom(fetched[k].idx, fetched[k].category) = <<>>

\* A file of one location that is valid but for its wind speed unit.
OneLocationUpToWindSpeedUnit ==
    /\ Len(file) = 1
    /\ file[1].Weather # Nil
    /\ ~LocationInvalid([file[1] EXCEPT !.Weather[1].WindSpeedUnit = "mph"])

(* C20. The accepted values of wind_speed_unit are kmh, kph, mph, ms and   *)
(* kn: a weather section with one of them is accepted, one with any other  *)
(* value is rejected, and a blank value becomes mph.                       *)
C20_WindSpeedUnits ==
    (Validated /\ OneLocationUpToWindSpeedUnit) =>
        LET u == file[1].Weather[1].WindSpeedUnit
        IN  /\ u \in {"kmh", "kph", "mph", "ms", "kn", ""} <=> err = NoError
            /\ (u = "" /\ err = NoError) => config[1].Weather[1].WindSpeedUnit = "mph"

-----------------------------------------------------------------------------
(* C21. Started without --variables.list, the exporter never takes the     *)
(* list-and-exit path: it loads the file and, when the file is valid,      *)
(* registers the collector with the file's locations and serves scrapes.   *)
(* The list-and-exit path is taken only when the flag is given, and then   *)
(* nothing is loaded.                                                      *)
C21_ListOnlyWhenAsked ==
    /\ listVariables = "" =>
          /\ pc # "listed"
          /\ pc # "main" =>
                IF \E i \in 1..Len(file) : LocationInvalid(file[i])
                THEN pc = "exit"
                ELSE IF Len(file) = 0
                THEN pc = "exit"
                ELSE pc \notin {"exit", "listed"} /\ Len(Locations) = Len(file)
    /\ listVariables # "" =>
          /\ pc \in {"main", "listed"}
          /\ Locations = <<>>
          /\ ch = <<>>

\* Started without the flag, the exporter has served a whole scrape.
C21_Witness ==
    /\ listVariables = ""
    /\ pc = "done"
    /\ Len(ch) > 1

-----------------------------------------------------------------------------
\* The answer has no key n in "current".
IsAbsent(x, n) == n \notin DOMAIN x.body.current

(* C22. A requested variable whose key the answer does not have at all is  *)
(* a missing value in both categories: mapping the answer does not panic,  *)
(* the variable has no observation and exactly one warning, and the other  *)
(* requested variables with a number have their observations.              *)
C22_AbsentKeyIsMissingValue ==
    \A k \in 1..Len(fetched) :
        LET f == fetched[k]
            names == RequestedNames(f.idx, f.category)
        IN  (/\ FetchReturned(f.x)
             /\ \A n \in Range(names) :
                   IsAbsent(f.x, n) \/ HasNumber(f.x, n) \/ HasNull(f.x, n)) =>
              /\ ~CrashedAt(f.idx, f.category)
              /\ \A n \in Range(names) :
                    IsAbsent(f.x, n) =>
                      /\ n \notin Range(EmittedNames(f.idx, f.category))
                      /\ Cardinality(NoValueWarningsFor(f.idx, f.category, n)) = 1
              /\ FullMetrics(f.idx, f.category, f.x)

-----------------------------------------------------------------------------
(* The order of one scrape.                                                *)

\* The place of stage <<i, s>> in the sequence info, weather, air quality of
\* location 1, then of location 2, and so on.
StageRank(st) ==
    3 * st[1] + (CASE st[2] = "info" -> 0
                   [] st[2] = "weather" -> 1
                   [] st[2] = "airquality" -> 2)

\* The stages of a sequence of stages never go back.
InStageOrder(stages) ==
    \A p, q \in 1..Len(stages) :
        p < q => StageRank(stages[p]) <= StageRank(stages[q])

\* The stages of the fetches of this scrape, in the order they were made.
FetchStages == [k \in 1..Len(fetched) |-> <<fetched[k].idx, fetched[k].category>>]

\* Location i has sent its location-info observation.
InfoSent(i) == \E p \in 1..Len(src) : src[p] = <<i, "info">>

(* C23. A scrape goes through the locations in configured order, one at a  *)
(* time; for each it first sends the location info, then fetches weather   *)
(* if configured, then fetches air quality if configured. Metrics,         *)
(* warnings and fetches never go back to an earlier stage; a location's    *)
(* info is sent only after the info of every location before it; a fetch   *)
(* is made only for a configured category of a location whose info has     *)
(* been sent; a fetch that failed left one warning and no observation, and *)
(* one that returned a response left its observations. When the scrape     *)
(* is done every configured category of every location has been fetched.   *)
C23_StateSequence ==
    /\ InStageOrder(src)
    /\ InStageOrder(logsrc)
    /\ InStageOrder(FetchStages)
    /\ \A i \in 1..Len(Locations) :
          InfoSent(i) => \A j \in 1..(i - 1) : InfoSent(j)
    /\ pc \in {"weather", "airquality"} => InfoSent(idx)
    /\ \A k \in 1..Len(fetched) :
          LET i == fetched[k].idx
              c == fetched[k].category
              x == fetched[k].x
          IN  /\ Configured(i, c)
              /\ InfoSent(i)
              /\ c = "airquality" /\ Configured(i, "weather") =>
                    FetchesOf(i, "weather") # {}
              /\ FetchFailed(x) =>
                    /\ MetricsFrom(i, c) = <<>>
                    /\ \E j \in 1..Len(log) :
                          logsrc[j] = <<i, c>> /\ log[j] = FailedWarning(Locations[i].Name, GetResponse(x).err)
              /\ FetchReturned(x) => Len(MetricsFrom(i, c)) >= 1
    /\ pc = "done" =>
          \A i \in 1..Len(Locations) :
              /\ InfoSent(i)
              /\ \A c \in Categories : Configured(i, c) => FetchesOf(i, c) # {}

\* A scrape of two locations is done: the first has weather alone and its
\* fetch failed, the second has air quality alone and its fetch returned a
\* response.
C23_Witness ==
    /\ pc = "done"
    /\ Len(Locations) = 2
    /\ FetchStages = <<<<1, "weather">>, <<2, "airquality">>>>
    /\ FetchFailed(fetched[1].x)
    /\ FetchReturned(fetched[2].x)

(* C24. In one scrape at most one GET is made for a configured (location,  *)
(* category), none for a category that is not configured, and when the     *)
(* scrape is done exactly one has been made for every configured pair,     *)
(* whether it failed or returned a response.                               *)
C24_OneGetPerPair ==
    \A i \in 1..Len(Locations) :
        \A c \in Categories :
            /\ Cardinality(FetchesOf(i, c)) <= 1
            /\ ~Configured(i, c) => FetchesOf(i, c) = {}
            /\ (pc = "done" /\ Configured(i, c)) => Cardinality(FetchesOf(i, c)) = 1

\* A scrape is done in which the weather fetch of a location failed and its
\* air-quality fetch returned a response, each made once.
C24_Witness ==
    /\ pc = "done"
    /\ \E i \in 1..Len(Locations) :
          /\ Cardinality(FetchesOf(i, "weather")) = 1
          /\ Cardinality(FetchesOf(i, "airquality")) = 1
          /\ \A k \in FetchesOf(i, "weather") : FetchFailed(fetched[k].x)
          /\ \A k \in FetchesOf(i, "airquality") : FetchReturned(fetched[k].x)

-----------------------------------------------------------------------------
(* Scrape after scrape.                                                    *)

\* What the collector of category c sends for location i when the upstream
\* answers x, computed from nothing but the configuration and x.
CollectorResult(i, c, x) ==
    IF c = "weather"
    THEN WeatherCollectorCollect(Locations[i], x)
    ELSE AirQualityCollectorCollect(Locations[i], x)

\* The fetch of <<i, c>> failed in the scrape before this one.
FailedBefore(i, c) ==
    \E k \in 1..Len(prev) :
        prev[k].idx = i /\ prev[k].category = c /\ FetchFailed(prev[k].x)

(* C25. Scrapes are independent: whatever the scrape before did, what a    *)
(* scrape has sent for a location and for a fetched (location, category)   *)
(* is what the configuration and the answer of this scrape alone give, and *)
(* the collector's locations are those loaded at start. In particular a   *)
(* (location, category) whose fetch failed in the scrape before and now    *)
(* returns a number or null for every requested variable has its full      *)
(* metrics and no failure warning.                                         *)
C25_CyclesIndependent ==
    pc \notin {"main", "exit"} =>
        /\ Locations = ConfigValidate(file).locs
        /\ \A i \in 1..Len(Locations) :
              InfoSent(i) => MetricsFrom(i, "info") = <<InfoMetric(Locations[i])>>
        /\ \A k \in 1..Len(fetched) :
              LET i == fetched[k].idx
                  c == fetched[k].category
                  x == fetched[k].x
              IN  /\ MetricsFrom(i, c) = CollectorResult(i, c, x).metrics
                  /\ (/\ FailedBefore(i, c)
                       /\ FetchReturned(x)
                       /\ NumbersAndNulls(RequestedNames(i, c), x)) =>
                        /\ FullMetrics(i, c, x)
                        /\ \A j \in 1..Len(log) :
                              logsrc[j] = <<i, c>> =>
                                  log[j].msg # "Failed to collect weather information"

\* A scrape is done in which the weather fetch, which failed in the scrape
\* before, returned numbers and the location sent its full weather metrics.
C25_Witness ==
    /\ pc = "done"
    /\ FailedBefore(1, "weather")
    /\ \E k \in FetchesOf(1, "weather") :
          /\ FetchReturned(fetched[k].x)
          /\ HasNumber(fetched[k].x, "visibility")
          /\ HasNumber(fetched[k].x, "temperature_2m")
    /\ Len(MetricsFrom(1, "weather")) = 3

-----------------------------------------------------------------------------
(* A scrape aborted from outside.                                          *)

(* C26. Once the caller of a scrape has gone away, Collect sends no        *)
(* further metric in that scrape, and the collector's locations and the    *)
(* loaded configuration are as they were loaded.                           *)
C26_NoEmissionAfterAbort ==
    aborted # Nil =>
        /\ Len(ch) = aborted[1]
        /\ Locations = ConfigValidate(file).locs
        /\ config = ConfigValidate(file).locs

-----------------------------------------------------------------------------
(* Collect only reads the configuration.                                   *)

\* A call of Collect running alone from state s with the upstream answers
\* xs, one for each GET in order, up to the first GET that has no answer.
RECURSIVE RunAlone(_, _, _)
RunAlone(locs, s, xs) ==
    IF s.pc \in {"done", "crashed"} THEN s
    ELSE IF Fetches(locs, s, s.idx)
         THEN IF xs = <<>> THEN s
              ELSE RunAlone(locs, CollectStep(locs, s, s.idx, Head(xs)), Tail(xs))
         ELSE RunAlone(locs, CollectStep(locs, s, s.idx, NoExchange), xs)

\* The upstream answers of the first call, in order.
FetchedExchanges == [k \in 1..Len(fetched) |-> fetched[k].x]

(* C27. Collect and the fetches only read the configuration: through any   *)
(* number of scrapes, one after another or two in flight at once, the      *)
(* loaded configuration and the collector's locations stay as they were    *)
(* loaded, and each call sends exactly what a call running alone with the  *)
(* same upstream answers sends (all of it when it has ended, the beginning *)
(* of it while it runs).                                                   *)
C27_CollectOnlyReads ==
    pc \notin {"main", "exit", "listed"} =>
        LET locs == ConfigValidate(file).locs
            first == RunAlone(locs, Called, FetchedExchanges)
            second == RunAlone(locs, Called, other.xs)
        IN  /\ Locations = locs
            /\ config = locs
            /\ pc \notin {"serving"} => IsPrefix(ch, first.ch)
            /\ pc = "done" => ch = first.ch
            /\ IsPrefix(other.ch, second.ch)
            /\ other.pc \in {"done", "crashed"} => other.ch = second.ch

\* Both calls have ended after running at the same time: the second was
\* called while the first was at the first location and ended first.
C27_Witness ==
    /\ pc = "done"
    /\ other.pc = "done"
    /\ Len(other.xs) = 2
    /\ Len(fetched) = 2
    /\ other.xs # FetchedExchanges
    /\ Len(other.ch) > Len(ch)
    /\ Len(ch) > 2

-----------------------------------------------------------------------------
(* What a refused configuration looks like.                                *)

(* C28. When Validate returns an error, the configuration it was called on *)
(* is exactly the configuration that was unmarshalled: no default has been *)
(* written into any location or section.                                   *)
C28_RejectedConfigUntouched ==
    (Validated /\ err # NoError) => config = file

-----------------------------------------------------------------------------
(* The identity of the metrics of one scrape.                              *)

\* Metrics p and q of the channel have the same fully qualified name and the
\* same label values.
SameSeries(p, q) == ch[p].fqName = ch[q].fqName /\ ch[p].labels = ch[q].labels

(* C29. In a scrape of an accepted configuration, whatever the upstream    *)
(* answers, no two metrics sent have both the same fully qualified name    *)
(* and the same label values.                                              *)
C29_NoDuplicateSeries ==
    pc \notin {"main", "exit"} =>
        \A p, q \in 1..Len(ch) : SameSeries(p, q) => p = q

-----------------------------------------------------------------------------
(* Each location's metrics are its own.                                    *)

====
